---- MODULE Spec2Model ----
(***************************************************************************)
(* Model of the schnapsen round-robin experiment (full_experiment.py) and  *)
(* of the rule cascades of the bots in schnapsen/bots.                     *)
(*                                                                         *)
(* Specification Spec     : main() of full_experiment.py, one action per   *)
(*                          loop iteration, the game engine being an       *)
(*                          opaque nondeterministic service.               *)
(* Specification SpecBots : one get_move call of one bot variant on an     *)
(*                          arbitrary bounded decision snapshot.           *)
(* Specification SpecRuns : main() executed twice with the same constants *)
(*                          against a deterministic engine.                *)
(* Specification SpecFaulty: main() against an engine that may return a    *)
(*                          winner or a final state foreign to the game.   *)
(* Specification SpecStats: one call of binom_test_two_sided.              *)
(***************************************************************************)
EXTENDS Integers, Sequences, FiniteSets, TLC

VARIABLES
    pc,             \* position of main(): "start", "pairing", "game", "report", "done", "aborted"
    deck_seeds,     \* main: deck_seeds
    files,          \* files written so far under OUTPUT_DIR
    pair_i,         \* main: index of spec_a in BOT_SPECS (1-based)
    pair_j,         \* main: index of spec_b in BOT_SPECS (1-based)
    game_index,     \* main: game_index of the next game of the current pairing
    pairing_stats,  \* main: pairing_stats, keyed by <<label_a, label_b>>
    bot_stats,      \* main: bot_stats, keyed by label
    raw_rows,       \* main: raw_rows
    final_state,    \* main: final_state of the game played last
    winner_bot,     \* main: winner_bot of the game played last
    notifications,  \* notify_game_end calls of the game played last, in call order
    created,        \* create_bot calls made so far in this run
    engine,         \* the game engine the run is linked with
    run,            \* which execution of the program this is (1 or 2)
    first_run,      \* what the first execution left behind, for comparison
    bot,            \* bot variant whose get_move is called
    valid_moves,    \* perspective.valid_moves()
    leader_move,    \* get_move argument leader_move (NoMove when leading)
    trump_suit,     \* perspective.get_trump_suit()
    phase,          \* perspective.get_phase()
    dpc,            \* position of the decision: "call", "returned", "raised"
    best_moves,     \* list handed to rng.choice
    chosen,         \* move returned by get_move
    rng_draws,      \* draws made from random sources during the get_move call, in order
    stat_k,         \* binom_test_two_sided argument k
    stat_n,         \* binom_test_two_sided argument n
    stat_pc,        \* position of the significance test: "call", "returned"
    p_value         \* result of binom_test_two_sided, in units of 2^-n

tvars == <<pc, deck_seeds, files, pair_i, pair_j, game_index, pairing_stats,
           bot_stats, raw_rows, final_state, winner_bot, notifications, created,
           engine, run, first_run>>
bvars == <<bot, valid_moves, leader_move, trump_suit, phase, dpc, best_moves, chosen,
           rng_draws>>
svars == <<stat_k, stat_n, stat_pc, p_value>>
vars == <<pc, deck_seeds, files, pair_i, pair_j, game_index, pairing_stats,
          bot_stats, raw_rows, final_state, winner_bot, notifications, created,
          engine, run, first_run,
          bot, valid_moves, leader_move, trump_suit, phase, dpc, best_moves, chosen,
          rng_draws,
          stat_k, stat_n, stat_pc, p_value>>

(***************************************************************************)
(* Bounds of the model.                                                    *)
(***************************************************************************)
NumBots == 3            \* how many entries of BOT_SPECS take part
GAMES_PER_PAIRING == 2  \* games per pairing (1000 in the experiment)
MaxSeed == 1            \* deck seeds are drawn from 0..MaxSeed
MaxPoints == 1          \* final point totals are drawn from 0..MaxPoints
MaxMatchPoints == 1     \* match points are drawn from 1..MaxMatchPoints
MaxMoves == 3           \* longest list of legal moves of a decision

BASE_SEED == 20240229

(***************************************************************************)
(* Generic helpers.                                                        *)
(***************************************************************************)
RECURSIVE SumSeq(_)
SumSeq(s) == IF s = <<>> THEN 0 ELSE Head(s) + SumSeq(Tail(s))

RECURSIVE SumOver(_, _)
SumOver(S, f) ==
    IF S = {} THEN 0
    ELSE LET x == CHOOSE y \in S : TRUE IN f[x] + SumOver(S \ {x}, f)

(***************************************************************************)
(* full_experiment.py                                                      *)
(***************************************************************************)
AllLabels == <<"Bot1", "Bot2", "Bot3", "Bot4", "Bot5", "Bot6", "Bot7old",
               "Bot7", "Bot8", "RandBot", "BullyBot">>

BOT_SPECS == SubSeq(AllLabels, 1, NumBots)

Labels == {BOT_SPECS[k] : k \in 1..Len(BOT_SPECS)}

\* stable_int_seed: the digest is a function of the joined key only; the key
\* stands for its digest.
stable_int_seed(base, label, index) == <<base, label, index>>

\* Variant: the rng is seeded with the number of games played so far in the run.
create_bot_Sequential(label, index) ==
    [name |-> label, seed |-> stable_int_seed(BASE_SEED, label, Len(raw_rows))]

\* create_bot: a fresh agent carrying its label and the seed of its rng.
create_bot(label, index) ==
    [name |-> label, seed |-> stable_int_seed(BASE_SEED, label, index)]

NoAgent == [name |-> "", seed |-> <<0, "", 0>>]

NoState == [leader |-> NoAgent, follower |-> NoAgent,
            leader_score |-> 0, follower_score |-> 0]

Points == 0..MaxPoints

\* The final scores the engine may report for (leader, follower).
FinalScores == {p \in Points \X Points : p[1] # p[2]}

\* play_game_capture_state: the engine plays tricks until declare_winner
\* names the leader or the follower of the game state; either bot may be the
\* leader of the final state.  Result: <<winner, match points, game_state>>.
play_game_capture_state(leader_bot, follower_bot, deck_seed) ==
    { <<w, mp, gs>> :
        w \in {leader_bot, follower_bot},
        mp \in 1..MaxMatchPoints,
        gs \in { [leader |-> r[1], follower |-> r[2],
                  leader_score |-> p[1], follower_score |-> p[2]] :
                 r \in {<<leader_bot, follower_bot>>, <<follower_bot, leader_bot>>},
                 p \in FinalScores } }

\* play_game_capture_state, lines 109-112: the winner is told it won, then the
\* follower of the final state is told it lost.
notify_game_end(w, gs) ==
    << [agent |-> w, won |-> TRUE], [agent |-> gs.follower, won |-> FALSE] >>

(***************************************************************************)
(* The engines a run may be linked with.                                   *)
(*   "any"    : an engine honouring its contract, otherwise arbitrary      *)
(*   "det"    : a deterministic engine: its result is a function of its    *)
(*              arguments, here through EngineKey                          *)
(*   "faulty" : an engine that may break its contract: a winner or a final *)
(*              state that is foreign to the two agents of the game        *)
(***************************************************************************)
NumEngineKeys == 2

AnyEngine == [kind |-> "any", table |-> <<>>]

FaultyEngine == [kind |-> "faulty", table |-> <<>>]

\* What a deterministic engine answers for one key.
EngineShapes ==
    [leader_wins : BOOLEAN, points : 1..MaxMatchPoints, swapped : BOOLEAN,
     scores : FinalScores]

DetEngines == { [kind |-> "det", table |-> t] : t \in [1..NumEngineKeys -> EngineShapes] }

LabelIndex(label) == CHOOSE k \in 1..Len(AllLabels) : AllLabels[k] = label

\* The part of the arguments a deterministic engine of the model looks at:
\* the deck seed and the seed of the leader's rng (its label and game index).
EngineKey(leader_bot, follower_bot, deck_seed) ==
    ((deck_seed + LabelIndex(leader_bot.seed[2]) + leader_bot.seed[3]) % NumEngineKeys) + 1

DetResult(sh, leader_bot, follower_bot) ==
    << IF sh.leader_wins THEN leader_bot ELSE follower_bot,
       sh.points,
       [leader |-> IF sh.swapped THEN follower_bot ELSE leader_bot,
        follower |-> IF sh.swapped THEN leader_bot ELSE follower_bot,
        leader_score |-> sh.scores[1], follower_score |-> sh.scores[2]] >>

\* An agent that is neither of the two agents of the game.
Stranger == [name |-> "Stranger", seed |-> <<0, "Stranger", 0>>]

\* Results that break the engine's contract.
FaultyResults(leader_bot, follower_bot) ==
    { <<Stranger, mp, gs>> :
        mp \in 1..MaxMatchPoints,
        gs \in { [leader |-> leader_bot, follower |-> follower_bot,
                  leader_score |-> p[1], follower_score |-> p[2]] : p \in FinalScores } }
    \cup
    { <<leader_bot, mp, gs>> :
        mp \in 1..MaxMatchPoints,
        gs \in { [leader |-> r[1], follower |-> r[2],
                  leader_score |-> p[1], follower_score |-> p[2]] :
                 r \in {<<leader_bot, Stranger>>, <<Stranger, follower_bot>>},
                 p \in FinalScores } }

\* What play_game_capture_state returns when linked with engine e.
EngineResults(e, leader_bot, follower_bot, deck_seed) ==
    CASE e.kind = "any" -> play_game_capture_state(leader_bot, follower_bot, deck_seed)
      [] e.kind = "det" ->
            { r \in play_game_capture_state(leader_bot, follower_bot, deck_seed) :
                r = DetResult(e.table[EngineKey(leader_bot, follower_bot, deck_seed)],
                              leader_bot, follower_bot) }
      [] e.kind = "faulty" ->
            play_game_capture_state(leader_bot, follower_bot, deck_seed)
            \cup FaultyResults(leader_bot, follower_bot)

\* Variant: the score is always read from the leader of the final state.
get_bot_points_LeaderOnly(game_state, b) == game_state.leader_score

\* Variant: a bot that is not in the final state gets 0 points.
get_bot_points_Default(game_state, b) ==
    IF game_state.leader = b THEN game_state.leader_score
    ELSE IF game_state.follower = b THEN game_state.follower_score
    ELSE 0

\* get_bot_points: -1 stands for the ValueError.
get_bot_points(game_state, b) ==
    IF game_state.leader = b THEN game_state.leader_score
    ELSE IF game_state.follower = b THEN game_state.follower_score
    ELSE -1

\* One create_bot call as an observer sees it: the agent made, for which game of
\* which pairing, and whether the agent leads that game.
CreateCall(agent, pairing_id, index, leads) ==
    [label |-> agent.name, seed |-> agent.seed, pairing_id |-> pairing_id,
     game_index |-> index, leads |-> leads]

\* Variant: the first-named bot leads every game.
LeaderFollower_NoSwap(bot_a, bot_b, index) == <<bot_a, bot_b>>

\* main, lines 201-204: who leads the game with this index.
LeaderFollower(bot_a, bot_b, index) ==
    IF index % 2 = 0 THEN <<bot_a, bot_b>> ELSE <<bot_b, bot_a>>

\* Variant: every game uses the first deck seed.
DeckSeedOf_First(seeds, index) == seeds[1]

\* main, line 197
DeckSeedOf(seeds, index) == seeds[index + 1]

\* main, lines 214-222
WinnerLabel(w, bot_a, bot_b) ==
    IF w = bot_a THEN bot_a.name
    ELSE IF w = bot_b THEN bot_b.name
    ELSE "Unknown"

PairWinsA(w, bot_a, bot_b) == IF w = bot_a THEN 1 ELSE 0

\* Variant: a win of the second-named bot is not counted in the pairing.
PairWinsB_Never(w, bot_a, bot_b) == 0

PairWinsB(w, bot_a, bot_b) ==
    IF w = bot_a THEN 0 ELSE IF w = bot_b THEN 1 ELSE 0

\* main, lines 228-229
BotWinA(w, bot_a) == IF w = bot_a THEN 1 ELSE 0

\* Variant: a win of the second-named bot is not counted in its record.
BotWinB_Never(w, bot_b) == 0

BotWinB(w, bot_b) == IF w = bot_b THEN 1 ELSE 0

\* main, line 212
PointDiff(points_a, points_b) == points_a - points_b

\* main, line 231
\* Variant: bot B stores the differential with bot A's sign.
DiffForB_Same(point_diff) == point_diff

DiffForB(point_diff) == -point_diff

\* Variant: the inner loop runs over BOT_SPECS[i:].
InnerStart_Self(i) == i

\* main, line 181: the inner loop runs over BOT_SPECS[i + 1:]
InnerStart(i) == i + 1

\* The pairing after (i, j) in the nested loops, <<0, 0>> when there is none.
RECURSIVE NextPairing(_, _)
NextPairing(i, j) ==
    IF j + 1 <= Len(BOT_SPECS) THEN <<i, j + 1>>
    ELSE IF i + 1 > Len(BOT_SPECS) THEN <<0, 0>>
    ELSE IF InnerStart(i + 1) <= Len(BOT_SPECS) THEN <<i + 1, InnerStart(i + 1)>>
    ELSE NextPairing(i + 1, Len(BOT_SPECS))

FirstPairing == NextPairing(1, InnerStart(1) - 1)

OutputFiles == {"tournament_games.csv", "pairing_summary.csv", "bot_summary.csv",
                "pvalues_headtohead.csv", "win_rate_per_bot.png",
                "avg_point_diff_per_bot.png", "win_rate_by_complexity.png"}

\* Nothing is known of an earlier execution.
NoRun == [deck_seeds |-> <<>>, raw_rows |-> <<>>]

\* Variant: the deck seed generator is not seeded, every execution draws afresh.
DeckSeedStream_Unseeded == [1..GAMES_PER_PAIRING -> 0..MaxSeed]

\* main, lines 157-158: GAMES_PER_PAIRING draws of random.Random(BASE_SEED).  The
\* generator is seeded with a constant: whatever the first execution drew, a
\* later execution draws again.
DeckSeedStream ==
    IF run = 1 THEN [1..GAMES_PER_PAIRING -> 0..MaxSeed] ELSE {first_run.deck_seeds}

TInit ==
    /\ pc = "start"
    /\ deck_seeds = <<>>
    /\ files = {}
    /\ pair_i = 0
    /\ pair_j = 0
    /\ game_index = 0
    /\ pairing_stats = <<>>
    /\ bot_stats = <<>>
    /\ raw_rows = <<>>
    /\ final_state = NoState
    /\ winner_bot = NoAgent
    /\ notifications = <<>>
    /\ created = {}
    /\ run = 1
    /\ first_run = NoRun

\* main, lines 156-178: deck seeds, metadata file, empty aggregates.
Setup ==
    /\ pc = "start"
    /\ deck_seeds' \in DeckSeedStream
    /\ files' = files \cup {"metadata.txt"}
    /\ raw_rows' = <<>>
    /\ bot_stats' = [l \in Labels |-> [games |-> 0, wins |-> 0, point_diffs |-> <<>>]]
    /\ pairing_stats' = <<>>
    /\ pair_i' = FirstPairing[1]
    /\ pair_j' = FirstPairing[2]
    /\ pc' = IF FirstPairing = <<0, 0>> THEN "report" ELSE "pairing"
    /\ UNCHANGED <<game_index, final_state, winner_bot, notifications, created,
                   engine, run, first_run>>

\* main, lines 180-194: the head of one pairing.
BeginPairing ==
    /\ pc = "pairing"
    /\ LET pairing_id == <<BOT_SPECS[pair_i], BOT_SPECS[pair_j]>>
           entry == [bot_a |-> BOT_SPECS[pair_i], bot_b |-> BOT_SPECS[pair_j],
                     wins_a |-> 0, wins_b |-> 0, point_diffs |-> <<>>]
       IN pairing_stats' =
            [p \in DOMAIN pairing_stats \cup {pairing_id} |->
                IF p = pairing_id THEN entry ELSE pairing_stats[p]]
    /\ game_index' = 0
    /\ IF GAMES_PER_PAIRING > 0
       THEN /\ pc' = "game"
            /\ UNCHANGED <<pair_i, pair_j>>
       ELSE LET n == NextPairing(pair_i, pair_j)
            IN /\ pair_i' = n[1]
               /\ pair_j' = n[2]
               /\ pc' = IF n = <<0, 0>> THEN "report" ELSE "pairing"
    /\ UNCHANGED <<deck_seeds, files, bot_stats, raw_rows, final_state, winner_bot,
                   notifications, created, engine, run, first_run>>

\* main, lines 196-246: one game of the current pairing.
PlayGame ==
    /\ pc = "game"
    /\ LET label_a == BOT_SPECS[pair_i]
           label_b == BOT_SPECS[pair_j]
           pairing_id == <<label_a, label_b>>
           deck_seed == DeckSeedOf(deck_seeds, game_index)
           bot_a == create_bot(label_a, game_index)
           bot_b == create_bot(label_b, game_index)
           lf == LeaderFollower(bot_a, bot_b, game_index)
       IN \E res \in EngineResults(engine, lf[1], lf[2], deck_seed) :
            LET w == res[1]
                match_points == res[2]
                gs == res[3]
                points_a == get_bot_points(gs, bot_a)
                points_b == get_bot_points(gs, bot_b)
                point_diff == PointDiff(points_a, points_b)
                ps == pairing_stats[pairing_id]
            IN /\ points_a >= 0
               /\ points_b >= 0
               /\ final_state' = gs
               /\ winner_bot' = w
               /\ notifications' = notify_game_end(w, gs)
               /\ created' = created \cup
                    { CreateCall(bot_a, pairing_id, game_index, lf[1] = bot_a),
                      CreateCall(bot_b, pairing_id, game_index, lf[1] = bot_b) }
               /\ pairing_stats' =
                    [pairing_stats EXCEPT ![pairing_id] =
                        [ps EXCEPT !.wins_a = @ + PairWinsA(w, bot_a, bot_b),
                                   !.wins_b = @ + PairWinsB(w, bot_a, bot_b),
                                   !.point_diffs = Append(@, point_diff)]]
               /\ bot_stats' =
                    [bot_stats EXCEPT
                        ![label_a] = [games |-> @.games + 1,
                                      wins |-> @.wins + BotWinA(w, bot_a),
                                      point_diffs |-> Append(@.point_diffs, point_diff)],
                        ![label_b] = [games |-> @.games + 1,
                                      wins |-> @.wins + BotWinB(w, bot_b),
                                      point_diffs |->
                                          Append(@.point_diffs, DiffForB(point_diff))]]
               /\ raw_rows' = Append(raw_rows,
                    [pairing_id |-> pairing_id,
                     game_index |-> game_index,
                     deck_seed |-> deck_seed,
                     leader |-> lf[1].name,
                     follower |-> lf[2].name,
                     winner |-> WinnerLabel(w, bot_a, bot_b),
                     winner_match_points |-> match_points,
                     points_a |-> points_a,
                     points_b |-> points_b,
                     point_diff |-> point_diff])
    /\ IF game_index + 1 < GAMES_PER_PAIRING
       THEN /\ game_index' = game_index + 1
            /\ UNCHANGED <<pc, pair_i, pair_j>>
       ELSE LET n == NextPairing(pair_i, pair_j)
            IN /\ game_index' = game_index + 1
               /\ pair_i' = n[1]
               /\ pair_j' = n[2]
               /\ pc' = IF n = <<0, 0>> THEN "report" ELSE "pairing"
    /\ UNCHANGED <<deck_seeds, files, engine, run, first_run>>

\* main, lines 196-211: get_bot_points raises ValueError for one of the two bots;
\* nothing catches it and the run ends there, before any aggregate is touched.
PlayGameRaises ==
    /\ pc = "game"
    /\ LET label_a == BOT_SPECS[pair_i]
           label_b == BOT_SPECS[pair_j]
           pairing_id == <<label_a, label_b>>
           deck_seed == DeckSeedOf(deck_seeds, game_index)
           bot_a == create_bot(label_a, game_index)
           bot_b == create_bot(label_b, game_index)
           lf == LeaderFollower(bot_a, bot_b, game_index)
       IN \E res \in EngineResults(engine, lf[1], lf[2], deck_seed) :
            /\ \/ get_bot_points(res[3], bot_a) < 0
               \/ get_bot_points(res[3], bot_b) < 0
            /\ final_state' = res[3]
            /\ winner_bot' = res[1]
            /\ notifications' = notify_game_end(res[1], res[3])
            /\ created' = created \cup
                 { CreateCall(bot_a, pairing_id, game_index, lf[1] = bot_a),
                   CreateCall(bot_b, pairing_id, game_index, lf[1] = bot_b) }
    /\ pc' = "aborted"
    /\ UNCHANGED <<deck_seeds, files, pair_i, pair_j, game_index, pairing_stats,
                   bot_stats, raw_rows, engine, run, first_run>>

\* main, lines 248-408: the reports, written after the last game.
WriteReports ==
    /\ pc = "report"
    /\ files' = files \cup OutputFiles
    /\ pc' = "done"
    /\ UNCHANGED <<deck_seeds, pair_i, pair_j, game_index, pairing_stats,
                   bot_stats, raw_rows, final_state, winner_bot, notifications,
                   created, engine, run, first_run>>

\* The program is executed a second time: every object of main() is built anew,
\* the files of the first execution stay on disk.
Rerun ==
    /\ pc = "done"
    /\ run = 1
    /\ run' = 2
    /\ first_run' = [deck_seeds |-> deck_seeds, raw_rows |-> raw_rows]
    /\ pc' = "start"
    /\ deck_seeds' = <<>>
    /\ pair_i' = 0
    /\ pair_j' = 0
    /\ game_index' = 0
    /\ pairing_stats' = <<>>
    /\ bot_stats' = <<>>
    /\ raw_rows' = <<>>
    /\ final_state' = NoState
    /\ winner_bot' = NoAgent
    /\ notifications' = <<>>
    /\ created' = {}
    /\ UNCHANGED <<files, engine>>

(***************************************************************************)
(* schnapsen/bots: the decision snapshot and the moves.                    *)
(***************************************************************************)
RankList == <<"ACE", "TEN", "KING", "QUEEN", "JACK">>

SuitList == <<"HEARTS", "CLUBS", "SPADES">>

Suits == {SuitList[k] : k \in 1..Len(SuitList)}

\* The bots compare suits for equality only: one trump suit and two other suits
\* give every pattern of (leader suit, follower suit, trump suit).
TrumpSuits == {SuitList[1]}

Phases == {"ONE", "TWO"}

Bots == {"Bot1", "Bot2", "Bot3", "Bot4", "Bot6", "Bot7old", "Bot7", "Bot8"}

NoCard == [rank |-> "NONE", suit |-> "NONE"]

NoMove == [kind |-> "none", card |-> NoCard, suit |-> "NONE"]

NumCards == Len(RankList) * Len(SuitList)

\* The n-th card of the deck, suit by suit.
CardAt(n) ==
    [rank |-> RankList[((n - 1) % Len(RankList)) + 1],
     suit |-> SuitList[((n - 1) \div Len(RankList)) + 1]]

Cards == {CardAt(n) : n \in 1..NumCards}

\* Move.is_regular_move / as_regular_move().card
RegularMove(c) == [kind |-> "regular", card |-> c, suit |-> c.suit]

\* Move.is_marriage / as_marriage(): suit is the suit of the pair, card is the
\* card of underlying_regular_move(), the Queen of the pair.
Marriage(c) == [kind |-> "marriage", card |-> c, suit |-> c.suit]

\* Move.is_trump_exchange: plays no card into the trick; card is the Jack given.
TrumpExchange(t) == [kind |-> "exchange", card |-> [rank |-> "JACK", suit |-> t], suit |-> t]

MarriageCards == {c \in Cards : c.rank = "QUEEN"}

NumMarriages == Len(SuitList)

\* The n-th Marriage move: the marriage of the n-th suit.
MarriageAt(n) == Marriage([rank |-> "QUEEN", suit |-> SuitList[n]])

NumMoveKinds == NumCards + NumMarriages + 1

\* The n-th move of the universe of moves under trump suit t.
MoveAt(n, t) ==
    IF n <= NumCards THEN RegularMove(CardAt(n))
    ELSE IF n <= NumCards + NumMarriages THEN MarriageAt(n - NumCards)
    ELSE TrumpExchange(t)

\* Lists of distinct legal moves, at most MaxMoves long.
ValidMoveLists(t) ==
    { [k \in DOMAIN ix |-> MoveAt(ix[k], t)] :
        ix \in { f \in UNION {[1..m -> 1..NumMoveKinds] : m \in 1..MaxMoves} :
                   \A a, b \in DOMAIN f : a < b => f[a] < f[b] } }

\* The leader's committed move as the follower sees it, NoMove when leading.
LeaderMoves ==
    {NoMove} \cup {RegularMove(c) : c \in Cards} \cup {Marriage(c) : c \in MarriageCards}

\* trick_scorer.rank_to_points
rank_to_points(rank) ==
    CASE rank = "ACE" -> 11
      [] rank = "TEN" -> 10
      [] rank = "KING" -> 4
      [] rank = "QUEEN" -> 3
      [] rank = "JACK" -> 2

IsRegular(m) == m.kind = "regular"

IsMarriage(m) == m.kind = "marriage"

IsTrumpExchange(m) == m.kind = "exchange"

\* The loop "if score > best_score: ... elif score == best_score: ..." over the
\* moves ms with scores sc, from position k on; best is empty while best_score
\* is -inf.
RECURSIVE KeepBest(_, _, _, _, _)
KeepBest(ms, sc, k, best_score, best) ==
    IF k > Len(ms) THEN best
    ELSE IF best = <<>> \/ sc[k] > best_score
         THEN KeepBest(ms, sc, k + 1, sc[k], <<ms[k]>>)
    ELSE IF sc[k] = best_score
         THEN KeepBest(ms, sc, k + 1, best_score, Append(best, ms[k]))
    ELSE KeepBest(ms, sc, k + 1, best_score, best)

\* The loop "if cost < cheapest_cost: ... elif cost == cheapest_cost: ..." over
\* card-playing moves; cheapest is empty while cheapest_cost is +inf.
RECURSIVE KeepCheapest(_, _, _, _)
KeepCheapest(ms, k, cheapest_cost, cheapest) ==
    IF k > Len(ms) THEN cheapest
    ELSE LET cost == rank_to_points(ms[k].card.rank)
         IN IF cheapest = <<>> \/ cost < cheapest_cost
            THEN KeepCheapest(ms, k + 1, cost, <<ms[k]>>)
            ELSE IF cost = cheapest_cost
            THEN KeepCheapest(ms, k + 1, cheapest_cost, Append(cheapest, ms[k]))
            ELSE KeepCheapest(ms, k + 1, cheapest_cost, cheapest)

\* Variant: every move is kept, whatever its cost.
Cheapest_Unfiltered(ms) == ms

Cheapest(ms) == KeepCheapest(ms, 1, 0, <<>>)

(***************************************************************************)
(* Scores (rules 1-3), one definition per bot.                             *)
(***************************************************************************)
Bot1Score(m) ==
    IF IsRegular(m) THEN rank_to_points(m.card.rank)
    ELSE IF IsMarriage(m) THEN rank_to_points(m.card.rank)
    ELSE 0

Bot2Score(m, t) ==
    IF IsRegular(m) THEN rank_to_points(m.card.rank)
    ELSE IF IsMarriage(m)
         THEN rank_to_points(m.card.rank) + (IF m.suit = t THEN 40 ELSE 20)
    ELSE 0

Bot3Score(m, t) ==
    (IF IsRegular(m) THEN rank_to_points(m.card.rank)
     ELSE IF IsMarriage(m)
          THEN rank_to_points(m.card.rank) + (IF m.suit = t THEN 40 ELSE 20)
     ELSE 0)
    + (IF IsTrumpExchange(m) THEN 15 ELSE 0)

Bot4Score(m, t) ==
    (IF IsRegular(m) THEN rank_to_points(m.card.rank)
     ELSE IF IsMarriage(m)
          THEN rank_to_points(m.card.rank) + (IF m.suit = t THEN 40 ELSE 20)
     ELSE 0)
    + (IF IsTrumpExchange(m) THEN 15 ELSE 0)

Bot6Score(m, t) ==
    (IF IsRegular(m) THEN rank_to_points(m.card.rank)
     ELSE IF IsMarriage(m)
          THEN rank_to_points(m.card.rank) + (IF m.suit = t THEN 40 ELSE 20)
     ELSE 0)
    + (IF IsTrumpExchange(m) THEN 15 ELSE 0)

Bot7oldScore(m, t) ==
    (IF IsRegular(m) THEN rank_to_points(m.card.rank)
     ELSE IF IsMarriage(m)
          THEN rank_to_points(m.card.rank) + (IF m.suit = t THEN 40 ELSE 20)
     ELSE 0)
    + (IF IsTrumpExchange(m) THEN 15 ELSE 0)

Bot7Score(m, t) ==
    (IF IsRegular(m) THEN rank_to_points(m.card.rank)
     ELSE IF IsMarriage(m)
          THEN rank_to_points(m.card.rank) + (IF m.suit = t THEN 40 ELSE 20)
     ELSE 0)
    + (IF IsTrumpExchange(m) THEN 15 ELSE 0)

\* Variant: Bot8 adds the marriage bonus in both phases.
Bot8Score_AlwaysBonus(m, t, ph) == Bot7Score(m, t)

Bot8Score(m, t, ph) ==
    (IF IsRegular(m) THEN rank_to_points(m.card.rank)
     ELSE IF IsMarriage(m)
          THEN rank_to_points(m.card.rank)
               + (IF ph = "ONE" THEN (IF m.suit = t THEN 40 ELSE 20) ELSE 0)
     ELSE 0)
    + (IF IsTrumpExchange(m) THEN 15 ELSE 0)

(***************************************************************************)
(* "Who wins the trick", one definition per bot that has follower rules.   *)
(***************************************************************************)
Bot4LeaderWins(lc, fc, t) ==
    IF lc.suit = fc.suit THEN rank_to_points(lc.rank) > rank_to_points(fc.rank)
    ELSE IF lc.suit = t THEN TRUE
    ELSE IF fc.suit = t THEN FALSE
    ELSE TRUE

Bot6LeaderWins(lc, fc, t) ==
    IF lc.suit = fc.suit THEN rank_to_points(lc.rank) > rank_to_points(fc.rank)
    ELSE IF lc.suit = t THEN TRUE
    ELSE IF fc.suit = t THEN FALSE
    ELSE TRUE

Bot7oldLeaderWins(lc, fc, t) ==
    IF lc.suit = fc.suit THEN rank_to_points(lc.rank) > rank_to_points(fc.rank)
    ELSE IF lc.suit = t THEN TRUE
    ELSE IF fc.suit = t THEN FALSE
    ELSE TRUE

Bot7LeaderWins(lc, fc, t) ==
    IF lc.suit = fc.suit THEN rank_to_points(lc.rank) > rank_to_points(fc.rank)
    ELSE IF lc.suit = t THEN TRUE
    ELSE IF fc.suit = t THEN FALSE
    ELSE TRUE

\* Variant: a trump played on another suit does not take the trick.
Bot8LeaderWins_NoTrump(lc, fc, t) ==
    IF lc.suit = fc.suit THEN rank_to_points(lc.rank) > rank_to_points(fc.rank)
    ELSE TRUE

Bot8LeaderWins(lc, fc, t) ==
    IF lc.suit = fc.suit THEN rank_to_points(lc.rank) > rank_to_points(fc.rank)
    ELSE IF lc.suit = t THEN TRUE
    ELSE IF fc.suit = t THEN FALSE
    ELSE TRUE

\* winning_moves / losing_moves of the follower loops.
Bot4Winning(valid, lm, t) ==
    SelectSeq(valid, LAMBDA m : ~IsTrumpExchange(m) /\ ~Bot4LeaderWins(lm.card, m.card, t))

\* Variant: a winning marriage is replaced by its underlying regular move.
Bot6Winning_Underlying(valid, lm, t) ==
    LET w == SelectSeq(valid, LAMBDA m : ~IsTrumpExchange(m)
                                         /\ ~Bot6LeaderWins(lm.card, m.card, t))
    IN [k \in 1..Len(w) |-> IF IsMarriage(w[k]) THEN RegularMove(w[k].card) ELSE w[k]]

Bot6Winning(valid, lm, t) ==
    SelectSeq(valid, LAMBDA m : ~IsTrumpExchange(m) /\ ~Bot6LeaderWins(lm.card, m.card, t))

Bot6Losing(valid, lm, t) ==
    SelectSeq(valid, LAMBDA m : ~IsTrumpExchange(m) /\ Bot6LeaderWins(lm.card, m.card, t))

Bot7oldWinning(valid, lm, t) ==
    SelectSeq(valid, LAMBDA m : ~IsTrumpExchange(m) /\ ~Bot7oldLeaderWins(lm.card, m.card, t))

Bot7oldLosing(valid, lm, t) ==
    SelectSeq(valid, LAMBDA m : ~IsTrumpExchange(m) /\ Bot7oldLeaderWins(lm.card, m.card, t))

Bot7Winning(valid, lm, t) ==
    SelectSeq(valid, LAMBDA m : ~IsTrumpExchange(m) /\ ~Bot7LeaderWins(lm.card, m.card, t))

Bot7Losing(valid, lm, t) ==
    SelectSeq(valid, LAMBDA m : ~IsTrumpExchange(m) /\ Bot7LeaderWins(lm.card, m.card, t))

Bot8Winning(valid, lm, t) ==
    SelectSeq(valid, LAMBDA m : ~IsTrumpExchange(m) /\ ~Bot8LeaderWins(lm.card, m.card, t))

Bot8Losing(valid, lm, t) ==
    SelectSeq(valid, LAMBDA m : ~IsTrumpExchange(m) /\ Bot8LeaderWins(lm.card, m.card, t))

\* Rules 4-6: win with the cheapest winning card, else lose with the cheapest card.
WinOrLoseCheap(winning, losing) ==
    IF winning # <<>> THEN Cheapest(winning) ELSE Cheapest(losing)

\* Variant: the cheapest card play of any suit.
LeadCheap_AnySuit(valid, t) ==
    Cheapest(SelectSeq(valid, LAMBDA m : ~IsTrumpExchange(m)))

\* Bot7old rule 7 / Bot8 rule 8: cheapest non-trump card play, else cheapest trump.
LeadCheap(valid, t) ==
    LET non_trump_moves ==
            SelectSeq(valid, LAMBDA m : ~IsTrumpExchange(m) /\ m.card.suit # t)
        trump_moves ==
            SelectSeq(valid, LAMBDA m : ~IsTrumpExchange(m) /\ m.card.suit = t)
        preferred_moves == IF non_trump_moves # <<>> THEN non_trump_moves ELSE trump_moves
    IN Cheapest(preferred_moves)

\* Bot7 / Bot8 rule 7: the non-trump Ace or Ten leads.
\* Variant: a trump Ace or Ten counts as an aggressive lead too.
Bot7AggressiveLeads_AnySuit(valid, t) ==
    SelectSeq(valid, LAMBDA m : /\ ~IsTrumpExchange(m)
                                /\ m.card.rank \in {"ACE", "TEN"})

Bot7AggressiveLeads(valid, t) ==
    SelectSeq(valid, LAMBDA m : /\ ~IsTrumpExchange(m)
                                /\ m.card.suit # t
                                /\ m.card.rank \in {"ACE", "TEN"})

\* Variant: only a non-trump Ace counts as an aggressive lead.
Bot8AggressiveLeads_AceOnly(valid, t) ==
    SelectSeq(valid, LAMBDA m : /\ ~IsTrumpExchange(m)
                                /\ m.card.suit # t
                                /\ m.card.rank = "ACE")

Bot8AggressiveLeads(valid, t) ==
    SelectSeq(valid, LAMBDA m : /\ ~IsTrumpExchange(m)
                                /\ m.card.suit # t
                                /\ (m.card.rank = "ACE" \/ m.card.rank = "TEN"))

(***************************************************************************)
(* moves_to_consider when the scoring loop starts, per bot.                *)
(***************************************************************************)
\* Variant: the winning moves do not replace the legal moves.
Bot4Consider_Unfiltered(valid, lm, t) == valid

Bot4Consider(valid, lm, t) ==
    IF lm # NoMove /\ Bot4Winning(valid, lm, t) # <<>>
    THEN Bot4Winning(valid, lm, t)
    ELSE valid

Bot6Consider(valid, lm, t) ==
    IF lm # NoMove
    THEN WinOrLoseCheap(Bot6Winning(valid, lm, t), Bot6Losing(valid, lm, t))
    ELSE valid

Bot7oldConsider(valid, lm, t, ph) ==
    IF lm # NoMove
    THEN WinOrLoseCheap(Bot7oldWinning(valid, lm, t), Bot7oldLosing(valid, lm, t))
    ELSE IF ph = "ONE" THEN LeadCheap(valid, t)
    ELSE valid

Bot7Consider(valid, lm, t, ph) ==
    IF lm # NoMove
    THEN WinOrLoseCheap(Bot7Winning(valid, lm, t), Bot7Losing(valid, lm, t))
    ELSE IF ph = "ONE" /\ Bot7AggressiveLeads(valid, t) # <<>>
         THEN Bot7AggressiveLeads(valid, t)
    ELSE valid

Bot8Consider(valid, lm, t, ph) ==
    IF lm # NoMove
    THEN WinOrLoseCheap(Bot8Winning(valid, lm, t), Bot8Losing(valid, lm, t))
    ELSE IF ph = "TWO" THEN LeadCheap(valid, t)
    ELSE IF ph = "ONE" /\ Bot8AggressiveLeads(valid, t) # <<>>
         THEN Bot8AggressiveLeads(valid, t)
    ELSE valid

\* moves_to_consider of bot b.
Consider(b, valid, lm, t, ph) ==
    CASE b = "Bot4" -> Bot4Consider(valid, lm, t)
      [] b = "Bot6" -> Bot6Consider(valid, lm, t)
      [] b = "Bot7old" -> Bot7oldConsider(valid, lm, t, ph)
      [] b = "Bot7" -> Bot7Consider(valid, lm, t, ph)
      [] b = "Bot8" -> Bot8Consider(valid, lm, t, ph)
      [] OTHER -> valid

\* The score bot b gives move m.
Score(b, m, t, ph) ==
    CASE b = "Bot1" -> Bot1Score(m)
      [] b = "Bot2" -> Bot2Score(m, t)
      [] b = "Bot3" -> Bot3Score(m, t)
      [] b = "Bot4" -> Bot4Score(m, t)
      [] b = "Bot6" -> Bot6Score(m, t)
      [] b = "Bot7old" -> Bot7oldScore(m, t)
      [] b = "Bot7" -> Bot7Score(m, t)
      [] b = "Bot8" -> Bot8Score(m, t, ph)

\* best_moves of bot b: the scoring loop over moves_to_consider.
BestMoves(b, valid, lm, t, ph) ==
    LET ms == Consider(b, valid, lm, t, ph)
        sc == [k \in 1..Len(ms) |-> Score(b, ms[k], t, ph)]
    IN KeepBest(ms, sc, 1, 0, <<>>)

BIdle ==
    /\ bot = "none"
    /\ valid_moves = <<>>
    /\ leader_move = NoMove
    /\ trump_suit = "NONE"
    /\ phase = "NONE"
    /\ dpc = "idle"
    /\ best_moves = <<>>
    /\ chosen = NoMove
    /\ rng_draws = <<>>

\* A decision snapshot: the engine asks some bot for a move.  The leader's card
\* is not in the follower's hand.
BInit ==
    /\ bot = "none"
    /\ trump_suit \in TrumpSuits
    /\ phase \in Phases
    /\ valid_moves \in ValidMoveLists(trump_suit)
    /\ leader_move \in LeaderMoves
    /\ \A k \in 1..Len(valid_moves) :
         IsTrumpExchange(valid_moves[k]) \/ valid_moves[k].card # leader_move.card
    /\ dpc = "call"
    /\ best_moves = <<>>
    /\ chosen = NoMove
    /\ rng_draws = <<>>

\* One request to a random source: `source` is asked for an element of
\* `population` and delivers position `index` (0: none, the request fails).
Draw(source, population, index) ==
    [source |-> source, population |-> population, index |-> index]

\* Variant: the source is asked twice.
choice_Twice(rng, seq, k) ==
    <<Draw(rng, seq, IF seq = <<>> THEN 0 ELSE k), Draw(rng, seq, IF seq = <<>> THEN 0 ELSE k)>>

\* rng.choice(seq) when the source delivers position k: one request to rng
\* over seq; on an empty seq the request fails with IndexError.
choice(rng, seq, k) ==
    <<Draw(rng, seq, IF seq = <<>> THEN 0 ELSE k)>>

\* get_move of bot b returns rng.choice(best_moves), its only use of a random
\* source.
GetMove(b) ==
    /\ dpc = "call"
    /\ BestMoves(b, valid_moves, leader_move, trump_suit, phase) # <<>>
    /\ bot' = b
    /\ best_moves' = BestMoves(b, valid_moves, leader_move, trump_suit, phase)
    /\ \E k \in 1..Len(best_moves') :
         /\ rng_draws' = rng_draws \o choice("self.rng", best_moves', k)
         /\ chosen' = best_moves'[k]
    /\ dpc' = "returned"
    /\ UNCHANGED <<valid_moves, leader_move, trump_suit, phase>>

\* rng.choice of an empty list raises IndexError.
GetMoveRaises(b) ==
    /\ dpc = "call"
    /\ BestMoves(b, valid_moves, leader_move, trump_suit, phase) = <<>>
    /\ bot' = b
    /\ best_moves' = <<>>
    /\ rng_draws' = rng_draws \o choice("self.rng", best_moves', 0)
    /\ chosen' = NoMove
    /\ dpc' = "raised"
    /\ UNCHANGED <<valid_moves, leader_move, trump_suit, phase>>

(***************************************************************************)
(* full_experiment.py: the significance test.                              *)
(* With p = 0.5 every value the test handles is a multiple of 2^-n: a      *)
(* probability is held as its numerator over 2^n, an exact natural number  *)
(* <<hi, lo>> standing for hi * BigBase + lo (sums of numerators stay      *)
(* below 2^53 for n <= MaxN, so the floating-point sums are exact too).    *)
(***************************************************************************)
MaxN == 46              \* the test is applied to 0 <= k <= n <= MaxN

BigBase == 10000000

TOLERANCE_DIGITS == 12  \* the tolerance of line 143 is 10^-TOLERANCE_DIGITS

BigOf(x) == <<x \div BigBase, x % BigBase>>

BigAdd(a, b) ==
    <<a[1] + b[1] + ((a[2] + b[2]) \div BigBase), (a[2] + b[2]) % BigBase>>

BigLeq(a, b) == a[1] < b[1] \/ (a[1] = b[1] /\ a[2] <= b[2])

\* a - b for b <= a
BigSub(a, b) ==
    IF a[2] >= b[2] THEN <<a[1] - b[1], a[2] - b[2]>>
    ELSE <<a[1] - b[1] - 1, a[2] + BigBase - b[2]>>

BigMin(a, b) == IF BigLeq(a, b) THEN a ELSE b

\* a * m and a \div d for small m, d
BigMulSmall(a, m) == <<a[1] * m + ((a[2] * m) \div BigBase), (a[2] * m) % BigBase>>

BigDivSmall(a, d) == <<a[1] \div d, ((a[1] % d) * BigBase + a[2]) \div d>>

RECURSIVE Pow2(_)
Pow2(n) == IF n <= 7 THEN BigOf(2 ^ n) ELSE BigMulSmall(Pow2(n - 7), 128)

\* c * (n-lo+1)/lo * ... * (n-hi+1)/hi, the factors taken in this order; the
\* first half of the factors is worked out before the second half is entered.
RECURSIVE CombChain(_, _, _, _)
CombChain(c, n, lo, hi) ==
    IF lo > hi THEN c
    ELSE IF lo = hi THEN BigDivSmall(BigMulSmall(c, n - lo + 1), lo)
    ELSE LET half == CombChain(c, n, lo, (lo + hi) \div 2)
         IN IF half[1] >= 0 THEN CombChain(half, n, ((lo + hi) \div 2) + 1, hi) ELSE half

\* math.comb(n, k)
comb(n, k) == CombChain(BigOf(1), n, 1, IF k <= n - k THEN k ELSE n - k)

\* binom_pmf(k, n, 0.5) = comb(n, k) * 0.5^k * 0.5^(n-k), as a numerator over 2^n.
binom_pmf(k, n) == comb(n, k)

\* How many whole units of 2^-n the tolerance 10^-TOLERANCE_DIGITS holds.
ToleranceUnits(n) == Pow2(n)[1] \div (10 ^ (TOLERANCE_DIGITS - 7))

\* "prob <= observed + 1e-12": the numerators differ by a whole number of units.
WithinTolerance(prob, observed, n) ==
    \/ BigLeq(prob, observed)
    \/ BigLeq(BigSub(prob, observed), BigOf(ToleranceUnits(n)))

\* The loop of lines 141-144 for i = lo .. hi, in this order, started with
\* total; the first half of the iterations is worked out before the second half
\* is entered.
RECURSIVE SumLoop(_, _, _, _, _)
SumLoop(total, lo, hi, n, observed) ==
    IF lo > hi THEN total
    ELSE IF lo = hi
         THEN (IF WithinTolerance(binom_pmf(lo, n), observed, n)
               THEN BigAdd(total, binom_pmf(lo, n)) ELSE total)
    ELSE LET half == SumLoop(total, lo, (lo + hi) \div 2, n, observed)
         IN IF half[1] >= 0 THEN SumLoop(half, ((lo + hi) \div 2) + 1, hi, n, observed)
            ELSE half

\* Variant: the loop runs over range(n) and misses the outcome i = n.
binom_test_two_sided_ShortRange(k, n) ==
    BigMin(SumLoop(BigOf(0), 0, n - 1, n, binom_pmf(k, n)), Pow2(n))

\* binom_test_two_sided(k, n, 0.5), as a numerator over 2^n.
binom_test_two_sided(k, n) ==
    BigMin(SumLoop(BigOf(0), 0, n, n, binom_pmf(k, n)), Pow2(n))

\* A call of the test with some 0 <= k <= n.
SInit ==
    /\ stat_n \in 0..MaxN
    /\ stat_k \in 0..stat_n
    /\ stat_pc = "call"
    /\ p_value = BigOf(0)

BinomTest ==
    /\ stat_pc = "call"
    /\ p_value' = binom_test_two_sided(stat_k, stat_n)
    /\ stat_pc' = "returned"
    /\ UNCHANGED <<stat_k, stat_n>>

SIdle ==
    /\ stat_k = 0
    /\ stat_n = 0
    /\ stat_pc = "idle"
    /\ p_value = BigOf(0)

(***************************************************************************)
(* Specifications.                                                         *)
(***************************************************************************)
Init == TInit /\ engine = AnyEngine /\ BIdle /\ SIdle

Next ==
    \/ Setup /\ UNCHANGED bvars /\ UNCHANGED svars
    \/ BeginPairing /\ UNCHANGED bvars /\ UNCHANGED svars
    \/ PlayGame /\ UNCHANGED bvars /\ UNCHANGED svars
    \/ WriteReports /\ UNCHANGED bvars /\ UNCHANGED svars

Spec == Init /\ [][Next]_vars

\* Two executions of the program, one after the other, with a deterministic engine.
InitRuns == TInit /\ engine \in DetEngines /\ BIdle /\ SIdle

NextRuns ==
    \/ Setup /\ UNCHANGED bvars /\ UNCHANGED svars
    \/ BeginPairing /\ UNCHANGED bvars /\ UNCHANGED svars
    \/ PlayGame /\ UNCHANGED bvars /\ UNCHANGED svars
    \/ WriteReports /\ UNCHANGED bvars /\ UNCHANGED svars
    \/ Rerun /\ UNCHANGED bvars /\ UNCHANGED svars

SpecRuns == InitRuns /\ [][NextRuns]_vars

\* One execution with an engine that may break its contract.
InitFaulty == TInit /\ engine = FaultyEngine /\ BIdle /\ SIdle

NextFaulty ==
    \/ Setup /\ UNCHANGED bvars /\ UNCHANGED svars
    \/ BeginPairing /\ UNCHANGED bvars /\ UNCHANGED svars
    \/ PlayGame /\ UNCHANGED bvars /\ UNCHANGED svars
    \/ PlayGameRaises /\ UNCHANGED bvars /\ UNCHANGED svars
    \/ WriteReports /\ UNCHANGED bvars /\ UNCHANGED svars

SpecFaulty == InitFaulty /\ [][NextFaulty]_vars

InitBots == TInit /\ engine = AnyEngine /\ BInit /\ SIdle

NextBots ==
    \/ \E b \in Bots : GetMove(b) /\ UNCHANGED tvars /\ UNCHANGED svars
    \/ \E b \in Bots : GetMoveRaises(b) /\ UNCHANGED tvars /\ UNCHANGED svars

SpecBots == InitBots /\ [][NextBots]_vars

\* One call of the significance test.
InitStats == TInit /\ engine = AnyEngine /\ BIdle /\ SInit

NextStats == BinomTest /\ UNCHANGED tvars /\ UNCHANGED bvars

SpecStats == InitStats /\ [][NextStats]_vars

(***************************************************************************)
(* Properties of the tournament (specification Spec).                      *)
(***************************************************************************)
Finished == pc \in {"report", "done"}

RowIds == 1..Len(raw_rows)

\* Rows of pairing p among the first k rows.
RowsOf(p, k) == {r \in 1..k : raw_rows[r].pairing_id = p}

\* Rows among the first k in which the bot with this label played.
RowsWith(l, k) == {r \in 1..k : l \in {raw_rows[r].pairing_id[1], raw_rows[r].pairing_id[2]}}

WinsIn(l) ==
    [p \in DOMAIN pairing_stats |->
        (IF pairing_stats[p].bot_a = l THEN pairing_stats[p].wins_a ELSE 0)
        + (IF pairing_stats[p].bot_b = l THEN pairing_stats[p].wins_b ELSE 0)]

\* The final point total the engine holds for the bot with this label.
TrueScore(l) ==
    IF final_state.leader.name = l THEN final_state.leader_score
    ELSE final_state.follower_score

\* How many pairings the nested loops enumerate before (i, j).
PairRank(i, j) ==
    Cardinality({q \in (1..NumBots) \X (1..NumBots) :
                   /\ q[1] < q[2]
                   /\ \/ q[1] < i
                      \/ q[1] = i /\ q[2] < j})

Choose2(n) == (n * (n - 1)) \div 2

\* C1: after the tournament completes, wins_a + wins_b of every pairing equals
\* games_per_pairing.
C1_WinAccounting ==
    Finished =>
        \A p \in DOMAIN pairing_stats :
            pairing_stats[p].wins_a + pairing_stats[p].wins_b = GAMES_PER_PAIRING

C1_Witness ==
    /\ pc = "done"
    /\ \E p \in DOMAIN pairing_stats :
         pairing_stats[p].wins_a > 0 /\ pairing_stats[p].wins_b > 0

\* C2: the win count of every bot record equals the sum of the wins recorded
\* for that bot over the pairings it takes part in, so the sum of the bots'
\* wins equals the sum of the pairings' wins.
C2_BotWinsMatchPairings ==
    /\ \A l \in DOMAIN bot_stats :
         bot_stats[l].wins = SumOver(DOMAIN pairing_stats, WinsIn(l))
    /\ SumOver(DOMAIN bot_stats, [l \in DOMAIN bot_stats |-> bot_stats[l].wins])
         = SumOver(DOMAIN pairing_stats,
                   [p \in DOMAIN pairing_stats |->
                       pairing_stats[p].wins_a + pairing_stats[p].wins_b])

C2_Witness ==
    /\ pc = "done"
    /\ \E l \in DOMAIN bot_stats :
         /\ bot_stats[l].wins >= 2
         /\ \E p, q \in DOMAIN pairing_stats :
              /\ p # q
              /\ pairing_stats[p].bot_b = l /\ pairing_stats[p].wins_b > 0
              /\ pairing_stats[q].bot_a = l /\ pairing_stats[q].wins_a > 0

\* C3: the row of every recorded game has point_diff = points_a - points_b with
\* points_a, points_b the final totals of the first- and second-named bot; the
\* pairing and bot A store point_diff for that game and bot B stores -point_diff.
C3_ZeroSumDifferential ==
    /\ raw_rows # <<>> =>
         LET r == raw_rows[Len(raw_rows)]
         IN /\ r.points_a = TrueScore(r.pairing_id[1])
            /\ r.points_b = TrueScore(r.pairing_id[2])
    /\ \A k \in RowIds :
         LET r == raw_rows[k]
             a == r.pairing_id[1]
             b == r.pairing_id[2]
         IN /\ r.point_diff = r.points_a - r.points_b
            /\ pairing_stats[r.pairing_id].point_diffs[Cardinality(RowsOf(r.pairing_id, k))]
                 = r.point_diff
            /\ bot_stats[a].point_diffs[Cardinality(RowsWith(a, k))] = r.point_diff
            /\ bot_stats[b].point_diffs[Cardinality(RowsWith(b, k))] = -r.point_diff

C3_Witness ==
    /\ raw_rows # <<>>
    /\ LET r == raw_rows[Len(raw_rows)]
       IN /\ r.follower = r.pairing_id[1]
          /\ final_state.leader.name = r.pairing_id[1]
          /\ r.point_diff < 0
          /\ bot_stats[r.pairing_id[2]].point_diffs
               [Len(bot_stats[r.pairing_id[2]].point_diffs)] > 0

\* C4: in every pairing the first-named bot leads the games with an even index
\* and the second-named bot those with an odd index; when games_per_pairing is
\* even each of the two leads games_per_pairing / 2 games of a played pairing.
C4_Alternation ==
    /\ \A k \in RowIds :
         LET r == raw_rows[k]
         IN IF r.game_index % 2 = 0
            THEN r.leader = r.pairing_id[1] /\ r.follower = r.pairing_id[2]
            ELSE r.leader = r.pairing_id[2] /\ r.follower = r.pairing_id[1]
    /\ GAMES_PER_PAIRING % 2 = 0 =>
         \A p \in DOMAIN pairing_stats :
            Len(pairing_stats[p].point_diffs) = GAMES_PER_PAIRING =>
               /\ 2 * Cardinality({k \in RowIds : raw_rows[k].pairing_id = p
                                                   /\ raw_rows[k].leader = p[1]})
                    = GAMES_PER_PAIRING
               /\ 2 * Cardinality({k \in RowIds : raw_rows[k].pairing_id = p
                                                   /\ raw_rows[k].leader = p[2]})
                    = GAMES_PER_PAIRING

C4_Witness ==
    /\ pc = "done"
    /\ \E k \in RowIds :
         raw_rows[k].game_index % 2 = 1 /\ raw_rows[k].leader = raw_rows[k].pairing_id[2]

\* C5: the deck seeds are generated before any game and never change afterwards;
\* the game with index i uses deck seed i of the sequence in every pairing, so
\* games with the same index use the same deck seed in all pairings.
C5_SeedsUsed ==
    /\ pc = "start" => raw_rows = <<>>
    /\ \A k \in RowIds :
         /\ raw_rows[k].deck_seed = deck_seeds[raw_rows[k].game_index + 1]
         /\ \A m \in RowIds :
              raw_rows[m].game_index = raw_rows[k].game_index
                 => raw_rows[m].deck_seed = raw_rows[k].deck_seed

C5_SameDeckSeeds ==
    /\ []C5_SeedsUsed
    /\ [][pc # "start" => deck_seeds' = deck_seeds]_vars

C5_Witness ==
    /\ pc = "done"
    /\ Len(deck_seeds) >= 2
    /\ deck_seeds[1] # deck_seeds[2]
    /\ \E k, m \in RowIds :
         /\ raw_rows[k].pairing_id # raw_rows[m].pairing_id
         /\ raw_rows[k].game_index = 1
         /\ raw_rows[m].game_index = 1

\* C6: the rows are the games of the pairings (i, j), i < j, in the order of the
\* nested loops (outer over the specs, inner over the later specs), each pairing
\* with its game indices ascending from 0; no bot meets itself; at the end there
\* are C(n,2) * games_per_pairing rows and every bot has played
\* (n-1) * games_per_pairing games.
C6_Schedule ==
    /\ \A k \in RowIds :
         \E i, j \in 1..NumBots :
            /\ i < j
            /\ raw_rows[k].pairing_id = <<BOT_SPECS[i], BOT_SPECS[j]>>
            /\ raw_rows[k].game_index \in 0..(GAMES_PER_PAIRING - 1)
            /\ k = PairRank(i, j) * GAMES_PER_PAIRING + raw_rows[k].game_index + 1
    /\ \A p \in DOMAIN pairing_stats : p[1] # p[2]
    /\ Finished =>
         /\ Len(raw_rows) = Choose2(NumBots) * GAMES_PER_PAIRING
         /\ Cardinality(DOMAIN pairing_stats) = Choose2(NumBots)
         /\ \A l \in Labels : bot_stats[l].games = (NumBots - 1) * GAMES_PER_PAIRING

C6_Witness ==
    /\ pc = "done"
    /\ Len(raw_rows) = Choose2(NumBots) * GAMES_PER_PAIRING
    /\ Len(raw_rows) >= 6

\* C23: between any two games of the run, wins_a + wins_b of every pairing
\* equals the length of its differential list and the number of games completed
\* in it; every bot's games counter equals the length of its differential list
\* and its wins do not exceed its games; the bots' games add up to twice the
\* number of result rows; all differentials of all bot records add up to 0.
C23_RunningAccounts ==
    /\ \A p \in DOMAIN pairing_stats :
         /\ pairing_stats[p].wins_a + pairing_stats[p].wins_b
              = Len(pairing_stats[p].point_diffs)
         /\ Len(pairing_stats[p].point_diffs) = Cardinality(RowsOf(p, Len(raw_rows)))
    /\ \A l \in DOMAIN bot_stats :
         /\ bot_stats[l].games = Len(bot_stats[l].point_diffs)
         /\ bot_stats[l].wins <= bot_stats[l].games
    /\ SumOver(DOMAIN bot_stats, [l \in DOMAIN bot_stats |-> bot_stats[l].games])
         = 2 * Len(raw_rows)
    /\ SumOver(DOMAIN bot_stats,
               [l \in DOMAIN bot_stats |-> SumSeq(bot_stats[l].point_diffs)]) = 0

\* In the middle of the second pairing: one bot has played three games, won some
\* but not all of them, and holds a differential that is not 0.
C23_Witness ==
    /\ pc = "game"
    /\ game_index = 1
    /\ Len(raw_rows) = GAMES_PER_PAIRING + 1
    /\ \E l \in DOMAIN bot_stats :
         /\ bot_stats[l].games = 3
         /\ bot_stats[l].wins \in 1..2
         /\ SumSeq(bot_stats[l].point_diffs) # 0
    /\ \E p \in DOMAIN pairing_stats :
         pairing_stats[p].wins_a + pairing_stats[p].wins_b = 1

\* C12: the seed of the random source given to an agent is a function of (base
\* seed, bot label, game index) only: the opponent, the pairing, the games played
\* before and who leads do not enter it, so the same bot at the same game index
\* gets the same seed in every pairing.
C12_SeedIndependence ==
    /\ \A c \in created : c.seed = <<BASE_SEED, c.label, c.game_index>>
    /\ \A c, d \in created :
         (c.label = d.label /\ c.game_index = d.game_index) => c.seed = d.seed
    /\ raw_rows # <<>> =>
         \A a \in {final_state.leader, final_state.follower} :
            \E c \in created :
               /\ c.label = a.name
               /\ c.seed = a.seed
               /\ c.game_index = raw_rows[Len(raw_rows)].game_index

C12_Witness ==
    /\ pc = "done"
    /\ \E c, d \in created :
         /\ c.label = d.label
         /\ c.game_index = d.game_index
         /\ c.pairing_id # d.pairing_id
         /\ c.pairing_id[1] = c.label
         /\ d.pairing_id[2] = d.label
         /\ c.leads # d.leads
         /\ c.seed = d.seed

\* The agents of the game played last.
LastAgents == {final_state.leader, final_state.follower}

\* C13: at the end of every match both agents are notified of the game end
\* exactly once each: the winner with won = TRUE and the other agent with
\* won = FALSE, whichever of them leads or follows in the final game state.
C13_BothNotifiedOnce ==
    raw_rows # <<>> =>
        /\ Len(notifications) = 2
        /\ \A a \in LastAgents :
             Cardinality({k \in 1..Len(notifications) : notifications[k].agent = a}) = 1
        /\ \A k \in 1..Len(notifications) :
             /\ notifications[k].agent \in LastAgents
             /\ notifications[k].won = (notifications[k].agent = winner_bot)

(***************************************************************************)
(* Properties of the bots' decisions (specification SpecBots).             *)
(***************************************************************************)
ValidSet == {valid_moves[k] : k \in 1..Len(valid_moves)}

BestSet == {best_moves[k] : k \in 1..Len(best_moves)}

Following == leader_move # NoMove

CardPlays == {m \in ValidSet : ~IsTrumpExchange(m)}

FollowerRuleBots == {"Bot4", "Bot6", "Bot7old", "Bot7", "Bot8"}

ScoringRuleBots == {"Bot3", "Bot4", "Bot6", "Bot7old", "Bot7", "Bot8"}

\* The trick rule as stated: who takes the trick of leader card lc and follower
\* card fc under trump t.
TrickTaker(lc, fc, t) ==
    CASE lc.suit = fc.suit /\ rank_to_points(fc.rank) > rank_to_points(lc.rank) -> "follower"
      [] lc.suit = fc.suit /\ rank_to_points(fc.rank) < rank_to_points(lc.rank) -> "leader"
      [] lc.suit # fc.suit /\ lc.suit = t -> "leader"
      [] lc.suit # fc.suit /\ lc.suit # t /\ fc.suit = t -> "follower"
      [] OTHER -> "leader"

WinningReplies == {m \in CardPlays : TrickTaker(leader_move.card, m.card, trump_suit) = "follower"}

SeqSet(s) == {s[k] : k \in 1..Len(s)}

\* The score as stated: card points of the card played, marriage bonus, trump
\* exchange bonus; Bot8 adds the marriage bonus in Phase ONE only.
StatedScore(b, m) ==
    (IF m.kind \in {"regular", "marriage"} THEN rank_to_points(m.card.rank) ELSE 0)
    + (IF m.kind = "marriage" /\ (b # "Bot8" \/ phase = "ONE")
       THEN (IF m.suit = trump_suit THEN 40 ELSE 20) ELSE 0)
    + (IF m.kind = "exchange" THEN 15 ELSE 0)

\* C7: the move a bot returns is one of the legal moves it was given.
C7_ChosenIsLegal ==
    dpc = "returned" => chosen \in ValidSet /\ BestSet \subseteq ValidSet

C7_Witness ==
    /\ dpc = "returned"
    /\ bot = "Bot6"
    /\ Following
    /\ chosen.kind = "marriage"
    /\ Len(valid_moves) = MaxMoves
    /\ chosen \in ValidSet

C9_WinningReplyRule ==
    Following =>
        /\ \A m \in CardPlays :
             LET lw == TrickTaker(leader_move.card, m.card, trump_suit) = "leader"
             IN /\ Bot4LeaderWins(leader_move.card, m.card, trump_suit) = lw
                /\ Bot6LeaderWins(leader_move.card, m.card, trump_suit) = lw
                /\ Bot7oldLeaderWins(leader_move.card, m.card, trump_suit) = lw
                /\ Bot7LeaderWins(leader_move.card, m.card, trump_suit) = lw
                /\ Bot8LeaderWins(leader_move.card, m.card, trump_suit) = lw
        /\ SeqSet(Bot4Winning(valid_moves, leader_move, trump_suit)) = WinningReplies
        /\ SeqSet(Bot6Winning(valid_moves, leader_move, trump_suit)) = WinningReplies
        /\ SeqSet(Bot7oldWinning(valid_moves, leader_move, trump_suit)) = WinningReplies
        /\ SeqSet(Bot7Winning(valid_moves, leader_move, trump_suit)) = WinningReplies
        /\ SeqSet(Bot8Winning(valid_moves, leader_move, trump_suit)) = WinningReplies
        /\ (dpc = "returned" /\ bot \in FollowerRuleBots /\ WinningReplies # {})
              => chosen \in WinningReplies

C9_Witness ==
    /\ dpc = "returned"
    /\ bot = "Bot8"
    /\ Following
    /\ leader_move.card.suit # trump_suit
    /\ chosen.card.suit = trump_suit
    /\ chosen \in WinningReplies
    /\ \E m \in CardPlays : m \notin WinningReplies /\ m.card.suit = leader_move.card.suit

\* C10: Bot3, Bot4, Bot6, Bot7old, Bot7 and Bot8 score a candidate with the card
\* points of the card it plays (0 for a trump exchange) plus 40 / 20 for a trump /
\* non-trump marriage (Bot8: in Phase ONE only) plus 15 for a trump exchange; the
\* candidates kept are exactly those of maximum score and the chosen move has it.
C10_MaxScoreKept ==
    (dpc = "returned" /\ bot \in ScoringRuleBots) =>
        LET cand == SeqSet(Consider(bot, valid_moves, leader_move, trump_suit, phase))
        IN /\ \A m \in ValidSet : Score(bot, m, trump_suit, phase) = StatedScore(bot, m)
           /\ BestSet = {m \in cand : \A o \in cand : StatedScore(bot, o) <= StatedScore(bot, m)}
           /\ chosen \in cand
           /\ \A o \in cand : StatedScore(bot, o) <= StatedScore(bot, chosen)

C10_Witness ==
    /\ dpc = "returned"
    /\ bot = "Bot8"
    /\ phase = "TWO"
    /\ ~Following
    /\ Len(best_moves) = 2
    /\ \E m \in BestSet : m.kind = "marriage"
    /\ \E m \in BestSet : m.kind = "regular"

CheapFollowerBots == {"Bot6", "Bot7old", "Bot7", "Bot8"}

\* The card-point value of the card a card-playing move plays.
CardCost(m) == rank_to_points(m.card.rank)

\* The moves of S whose card-point value is the minimum over S.
MinCost(S) == {m \in S : \A o \in S : CardCost(m) <= CardCost(o)}

\* The moves of S whose stated score is the maximum over S.
MaxScore(b, S) == {m \in S : \A o \in S : StatedScore(b, o) <= StatedScore(b, m)}

\* C18: Bot6, Bot7old, Bot7 and Bot8 as follower return a winning reply of
\* minimum card-point value among the winning replies if there is a winning
\* reply, and otherwise a card play of minimum card-point value among all legal
\* card plays; when exactly one move qualifies, it is the only candidate of the
\* random choice.
C18_CheapestReply ==
    (dpc = "returned" /\ bot \in CheapFollowerBots /\ Following) =>
        LET qualifying == IF WinningReplies # {} THEN MinCost(WinningReplies)
                          ELSE MinCost(CardPlays)
        IN /\ chosen \in qualifying
           /\ BestSet \subseteq qualifying
           /\ (Cardinality(qualifying) = 1 => BestSet = qualifying)

\* A led trump Queen, a hand of trump King (winning) and an off-suit Jack
\* (cheaper, losing): the King is the single candidate.
C18_Witness ==
    /\ dpc = "returned"
    /\ bot = "Bot7"
    /\ leader_move = RegularMove([rank |-> "QUEEN", suit |-> trump_suit])
    /\ Len(valid_moves) = 2
    /\ \E m \in ValidSet : m.card.rank = "JACK" /\ m.card.suit # trump_suit
    /\ chosen = RegularMove([rank |-> "KING", suit |-> trump_suit])
    /\ best_moves = <<chosen>>

\* C19: Bot4 as follower returns a winning reply of highest score among the
\* winning replies whenever a legal move is a winning reply, and a move of
\* highest score over all legal moves when none is.
C19_Bot4Follower ==
    (dpc = "returned" /\ bot = "Bot4" /\ Following) =>
        IF WinningReplies # {}
        THEN /\ chosen \in MaxScore("Bot4", WinningReplies)
             /\ BestSet = MaxScore("Bot4", WinningReplies)
        ELSE /\ chosen \in MaxScore("Bot4", ValidSet)
             /\ BestSet = MaxScore("Bot4", ValidSet)

\* Two winning replies of different score and a losing move that scores more
\* than both.
C19_Witness ==
    /\ dpc = "returned"
    /\ bot = "Bot4"
    /\ Following
    /\ Cardinality(WinningReplies) = 2
    /\ \E m \in WinningReplies : StatedScore("Bot4", m) < StatedScore("Bot4", chosen)
    /\ \E m \in ValidSet \ WinningReplies : StatedScore("Bot4", m) > StatedScore("Bot4", chosen)
    /\ chosen \in WinningReplies

AggressiveLeadBots == {"Bot7", "Bot8"}

\* The legal card plays of a non-trump Ace or Ten.
NonTrumpAceTen ==
    {m \in CardPlays : m.card.suit # trump_suit /\ m.card.rank \in {"ACE", "TEN"}}

\* C20: Bot7 and Bot8 leading in Phase ONE return a card play of a non-trump
\* Ace or Ten (never a trump exchange) if a legal card play is one; if none is,
\* the candidates that are scored are all the legal moves.
C20_AggressiveLead ==
    (dpc = "returned" /\ bot \in AggressiveLeadBots /\ ~Following /\ phase = "ONE") =>
        IF NonTrumpAceTen # {}
        THEN /\ chosen \in NonTrumpAceTen
             /\ BestSet \subseteq NonTrumpAceTen
             /\ ~IsTrumpExchange(chosen)
        ELSE /\ Consider(bot, valid_moves, leader_move, trump_suit, phase) = valid_moves
             /\ BestSet = MaxScore(bot, ValidSet)

\* A non-trump Ten is led although the trump Ace and the trump exchange score
\* more.
C20_Witness ==
    /\ dpc = "returned"
    /\ bot = "Bot8"
    /\ ~Following
    /\ phase = "ONE"
    /\ TrumpExchange(trump_suit) \in ValidSet
    /\ RegularMove([rank |-> "ACE", suit |-> trump_suit]) \in ValidSet
    /\ chosen.card.rank = "TEN"
    /\ chosen \in NonTrumpAceTen

\* The decisions in which a leader plays cheap: Bot7old in Phase ONE, Bot8 in
\* Phase TWO.
CheapLeadCase ==
    /\ ~Following
    /\ \/ bot = "Bot7old" /\ phase = "ONE"
       \/ bot = "Bot8" /\ phase = "TWO"

NonTrumpPlays == {m \in CardPlays : m.card.suit # trump_suit}

TrumpPlays == {m \in CardPlays : m.card.suit = trump_suit}

\* C21: Bot7old leading in Phase ONE and Bot8 leading in Phase TWO return a
\* non-trump card play of minimum card-point value among the non-trump plays
\* if a legal card play is non-trump, and otherwise a trump card play of minimum
\* card-point value; the move returned is never a trump exchange.
C21_CheapLead ==
    (dpc = "returned" /\ CheapLeadCase) =>
        LET qualifying == IF NonTrumpPlays # {} THEN MinCost(NonTrumpPlays)
                          ELSE MinCost(TrumpPlays)
        IN /\ chosen \in qualifying
           /\ BestSet \subseteq qualifying
           /\ ~IsTrumpExchange(chosen)

\* A non-trump King is led although the trump Jack is cheaper and the trump
\* exchange scores more.
C21_Witness ==
    /\ dpc = "returned"
    /\ bot = "Bot8"
    /\ phase = "TWO"
    /\ ~Following
    /\ TrumpExchange(trump_suit) \in ValidSet
    /\ \E m \in TrumpPlays : CardCost(m) < CardCost(chosen)
    /\ chosen.card.rank = "KING"
    /\ chosen \in NonTrumpPlays

Counterpart(b) == IF b = "Bot7" THEN "Bot8" ELSE "Bot7"

\* C24: in Phase ONE, whatever the legal moves, the leader's move (present or
\* absent) and the trump suit, Bot7 and Bot8 end with the same list of final
\* candidates, so the position the random source delivers is the same move for
\* both.
C24_Bot7Bot8PhaseOne ==
    (dpc \in {"returned", "raised"} /\ bot \in AggressiveLeadBots /\ phase = "ONE") =>
        LET theirs == BestMoves(Counterpart(bot), valid_moves, leader_move, trump_suit, phase)
        IN /\ theirs = best_moves
           /\ dpc = "returned" => theirs[rng_draws[1].index] = chosen

\* Bot8 leads a marriage in Phase ONE for its bonus, from a hand without a
\* non-trump Ace or Ten, as Bot7 does.
C24_Witness ==
    /\ dpc = "returned"
    /\ bot = "Bot8"
    /\ phase = "ONE"
    /\ ~Following
    /\ NonTrumpAceTen = {}
    /\ Len(valid_moves) = 3
    /\ chosen.kind = "marriage"
    /\ \E m \in ValidSet : IsRegular(m) /\ CardCost(m) > CardCost(chosen)
    /\ best_moves = BestMoves("Bot7", valid_moves, leader_move, trump_suit, phase)

(***************************************************************************)
(* Properties of two executions (specification SpecRuns).                  *)
(***************************************************************************)
\* C11: with identical constants and a deterministic engine, the second
\* execution of the tournament produces the raw results of the first: the same
\* rows in the same order (leader, follower, winner, match points, points and
\* point_diff included).
C11_Determinism ==
    run = 2 =>
        /\ Len(raw_rows) <= Len(first_run.raw_rows)
        /\ \A k \in RowIds : raw_rows[k] = first_run.raw_rows[k]
        /\ Finished => raw_rows = first_run.raw_rows

C11_Witness ==
    /\ run = 2
    /\ pc = "done"
    /\ Len(raw_rows) = Choose2(NumBots) * GAMES_PER_PAIRING
    /\ raw_rows = first_run.raw_rows
    /\ \E k, m \in RowIds :
         /\ raw_rows[k].winner = raw_rows[k].leader
         /\ raw_rows[m].winner = raw_rows[m].follower
         /\ raw_rows[k].deck_seed # raw_rows[m].deck_seed
         /\ raw_rows[k].point_diff # raw_rows[m].point_diff

(***************************************************************************)
(* Properties of a run with an engine that may break its contract          *)
(* (specification SpecFaulty).                                             *)
(***************************************************************************)
\* C14: a game that ends without a winner among its two agents is a hard
\* failure and is never defaulted: no results row, win counter or differential
\* is recorded for a game whose winner is neither of the two agents.
C14_NoWinnerIsFatal ==
    /\ \A k \in RowIds :
         raw_rows[k].winner \in {raw_rows[k].pairing_id[1], raw_rows[k].pairing_id[2]}
    /\ \A p \in DOMAIN pairing_stats :
         Len(pairing_stats[p].point_diffs) = pairing_stats[p].wins_a + pairing_stats[p].wins_b
    /\ \A l \in DOMAIN bot_stats :
         bot_stats[l].games = Cardinality({k \in RowIds :
            /\ l \in {raw_rows[k].pairing_id[1], raw_rows[k].pairing_id[2]}
            /\ raw_rows[k].winner \in {raw_rows[k].pairing_id[1], raw_rows[k].pairing_id[2]}})

AllGamesPlayed == Len(raw_rows) = Choose2(NumBots) * GAMES_PER_PAIRING

\* C15: no output file is written before the last game of the tournament has
\* completed: a run either completes and writes all reports, or aborts before
\* any report or metadata file has been written.
C15_NoFileBeforeLastGame ==
    /\ files # {} => AllGamesPlayed
    /\ pc = "aborted" => files = {}
    /\ pc = "done" => files = OutputFiles \cup {"metadata.txt"}

\* The two agents main() created for the game that is being played.
CurrentAgents ==
    {create_bot(BOT_SPECS[pair_i], game_index), create_bot(BOT_SPECS[pair_j], game_index)}

Aggregates == <<pairing_stats, bot_stats, raw_rows>>

\* C17: if a participating agent is neither the leader nor the follower of the
\* final game state, point extraction fails with a fatal error that aborts the
\* run, and the aggregates are left as they were: no win counter, games counter,
\* differential list or results row is updated for that game (and none later).
C17_Step ==
    /\ pc # "aborted"
    /\ (pc = "game" /\ ~(CurrentAgents \subseteq {final_state'.leader, final_state'.follower}))
          => pc' = "aborted"
    /\ pc' = "aborted" => Aggregates' = Aggregates /\ files' = files
    /\ (pc = "game" /\ pc' # "aborted") => Len(raw_rows') = Len(raw_rows) + 1

C17_MissingAgentAborts == [][C17_Step]_vars

C17_Witness ==
    /\ pc = "aborted"
    /\ raw_rows # <<>>
    /\ ~AllGamesPlayed
    /\ Stranger \in LastAgents
    /\ final_state.leader.name # raw_rows[Len(raw_rows)].leader
    /\ \A l \in DOMAIN bot_stats :
         bot_stats[l].games = Cardinality(RowsWith(l, Len(raw_rows)))

(***************************************************************************)
(* Properties of the significance test (specification SpecStats).          *)
(***************************************************************************)
\* Outcomes that are at most as likely as the observed one.
AtMostAsLikely(k, n) == {i \in 0..n : BigLeq(comb(n, i), comb(n, k))}

\* Outcomes whose probability is at most the observed one plus 10^-12, that is
\* 10^12 * (C(n,i) - C(n,k)) <= 2^n (2^n is below 10^16, so a difference of 10^4
\* or more is out of tolerance).
AtMostAsLikelyPlusTolerance(k, n) ==
    {i \in 0..n : \/ BigLeq(comb(n, i), comb(n, k))
                  \/ /\ BigSub(comb(n, i), comb(n, k))[1] = 0
                     /\ BigSub(comb(n, i), comb(n, k))[2] < 10 ^ 4
                     /\ BigSub(comb(n, i), comb(n, k))[2] * (10 ^ 5) <= Pow2(n)[1]}

\* The sum of C(n, i) over the i of S between lo and hi.
RECURSIVE MassIn(_, _, _, _)
MassIn(S, n, lo, hi) ==
    IF lo > hi THEN BigOf(0)
    ELSE IF lo = hi THEN (IF lo \in S THEN comb(n, lo) ELSE BigOf(0))
    ELSE BigAdd(MassIn(S, n, lo, (lo + hi) \div 2), MassIn(S, n, ((lo + hi) \div 2) + 1, hi))

MassOf(S, n) == MassIn(S, n, 0, n)

====
